---------------------------- MODULE Spec2Model ----------------------------
(***************************************************************************)
(* random-access-storage-from: the dispatcher from(input, optsOrEncoding)  *)
(* and the provider registry it consults.                                  *)
(*                                                                         *)
(* JavaScript values are records of one fixed shape (JsValue below), the   *)
(* options argument is a record of one fixed shape (OptArg below), strings *)
(* are sequences of one-character strings.  The results of the Node        *)
(* built-ins the dispatcher calls (url.parse, Buffer.from, Buffer.alloc,   *)
(* fs.accessSync/statSync) are computed as Node computes them for the      *)
(* values of the model.                                                    *)
(***************************************************************************)
EXTENDS Integers, Sequences, FiniteSets, TLC

VARIABLES
    providers,       \* the registry object exported by providers.js
    isBrowser,       \* require('is-browser'), fixed for the process
    input,           \* first argument of the from() call
    optsOrEncoding,  \* second argument of the from() call
    probe,           \* what the filesystem holds under the path `input`
    last             \* observation of the from() call: calls made, result

vars == <<providers, isBrowser, input, optsOrEncoding, probe, last>>

(***************************************************************************)
(* Bounds of the model.                                                    *)
(***************************************************************************)
MaxChain == 2     \* deepest nesting of factory functions
MaxNum == 2       \* largest finite number given as input
MaxRegion == 3    \* largest byteOffset / length given with an array-buffer

(***************************************************************************)
(* Characters.                                                             *)
(***************************************************************************)
CharCode ==
    ("a" :> 97) @@ ("b" :> 98) @@ ("c" :> 99) @@ ("d" :> 100) @@ ("e" :> 101)
    @@ ("f" :> 102) @@ ("h" :> 104) @@ ("i" :> 105) @@ ("l" :> 108)
    @@ ("n" :> 110) @@ ("o" :> 111) @@ ("p" :> 112) @@ ("r" :> 114)
    @@ ("s" :> 115) @@ ("t" :> 116) @@ ("u" :> 117) @@ ("x" :> 120)
    @@ ("H" :> 72) @@ ("P" :> 80) @@ ("T" :> 84)
    @@ (":" :> 58) @@ ("/" :> 47) @@ ("?" :> 63)

UpperToLower == ("H" :> "h") @@ ("P" :> "p") @@ ("T" :> "t")

HexValue ==
    ("a" :> 10) @@ ("b" :> 11) @@ ("c" :> 12) @@ ("d" :> 13) @@ ("e" :> 14)
    @@ ("f" :> 15)

\* String.prototype.toLowerCase on one character
Lower(c) == IF c \in DOMAIN UpperToLower THEN UpperToLower[c] ELSE c

LowerAll(s) == [i \in 1..Len(s) |-> Lower(s[i])]

\* characters of /[a-z0-9.+-]/i that occur in the model
IsProtoChar(c) == c \in DOMAIN CharCode /\ c \notin {":", "/", "?"}

\* s.indexOf(sub) !== -1
Contains(s, sub) ==
    \E i \in 1..(Len(s) - Len(sub) + 1) :
        SubSeq(s, i, i + Len(sub) - 1) = sub

StartsWith(s, pre) == Len(s) >= Len(pre) /\ SubSeq(s, 1, Len(pre)) = pre

\* index of the first character of s that is in cs, Len(s)+1 when there is none
FirstOf(s, cs) ==
    IF \E i \in 1..Len(s) : s[i] \in cs
    THEN CHOOSE i \in 1..Len(s) :
            s[i] \in cs /\ \A j \in 1..(i - 1) : s[j] \notin cs
    ELSE Len(s) + 1

Drop(s, n) == SubSeq(s, n + 1, Len(s))


(***************************************************************************)
(* JavaScript values.  One record shape for every value:                   *)
(*   t      the kind of value                                              *)
(*   str    the characters of a string                                     *)
(*   num    a number: k is "finite", "NaN", "Infinity" or "-Infinity"      *)
(*   elems  the elements of an array, the bytes of a buffer or of an       *)
(*          array-buffer, the elements of an object's `data` array         *)
(*   flags  the capability properties of an object that are truthy         *)
(*   isBuf  the object's `type` property equals 'Buffer'                   *)
(*   hasData the object's `data` property is an array                      *)
(*   id     the identity of an object (0 for a primitive)                  *)
(*   wraps  k > 0: a function that returns the value with wraps = k - 1    *)
(***************************************************************************)
Capabilities == {"readable", "writable", "statable", "deletable"}

Finite(n) == [k |-> "finite", v |-> n]
NaN == [k |-> "NaN", v |-> 0]
Infinity == [k |-> "Infinity", v |-> 0]
NegInfinity == [k |-> "-Infinity", v |-> 0]
StrElem == [k |-> "string", v |-> 0]      \* an element that is no number

JsValue(t, str, num, elems, flags, isBuf, hasData, id) ==
    [t |-> t, str |-> str, num |-> num, elems |-> elems, flags |-> flags,
     isBuf |-> isBuf, hasData |-> hasData, id |-> id, wraps |-> 0]

Undefined == JsValue("undefined", <<>>, Finite(0), <<>>, {}, FALSE, FALSE, 0)
Null == JsValue("null", <<>>, Finite(0), <<>>, {}, FALSE, FALSE, 0)
Bool == JsValue("boolean", <<>>, Finite(0), <<>>, {}, FALSE, FALSE, 0)
Symbol == JsValue("symbol", <<>>, Finite(0), <<>>, {}, FALSE, FALSE, 0)
Str(s) == JsValue("string", s, Finite(0), <<>>, {}, FALSE, FALSE, 0)
Num(n) == JsValue("number", <<>>, n, <<>>, {}, FALSE, FALSE, 0)
\* a Buffer; flags are extra truthy properties set on it
Buf(bytes, flags, id) ==
    JsValue("buffer", <<>>, Finite(0), [i \in 1..Len(bytes) |-> Finite(bytes[i])],
            flags, FALSE, FALSE, id)
ArrBuf(bytes, id) ==
    JsValue("arraybuffer", <<>>, Finite(0),
            [i \in 1..Len(bytes) |-> Finite(bytes[i])], {}, FALSE, FALSE, id)
Arr(elems, flags, id) ==
    JsValue("array", <<>>, Finite(0), elems, flags, FALSE, FALSE, id)
\* a plain object: capability flags, `type`, `data`
Obj(flags, isBuf, hasData, data, id) ==
    JsValue("object", <<>>, Finite(0), data, flags, isBuf, hasData, id)
\* a function of one argument that returns v
Factory(v) == [v EXCEPT !.wraps = @ + 1]

\* typeof v
TypeOf(v) ==
    IF v.wraps > 0 THEN "function"
    ELSE IF v.t \in {"null", "buffer", "arraybuffer", "array", "object"}
         THEN "object"
         ELSE v.t

(***************************************************************************)
(* The options argument.  One record shape:                                *)
(*   t      "undefined", "null", "string", "object" or "other"             *)
(*   str    the string, when t = "string"                                  *)
(*   id     identity of the record, when t = "object"; 0 is the record     *)
(*          from() creates itself                                          *)
(*   enc    the encoding property: k is "absent", "string" or "other"      *)
(*   file   the file property: "absent", "true", "truthy"                  *)
(*   hasOffset, byteOffset, hasLength, length   the slice properties       *)
(*   value  a property from() does not read                                *)
(***************************************************************************)
AbsentEnc == [k |-> "absent", s |-> ""]
StrEnc(s) == [k |-> "string", s |-> s]
OtherEnc == [k |-> "other", s |-> ""]

OptArg(t, str, id, enc, file, hasOffset, byteOffset, hasLength, length, value) ==
    [t |-> t, str |-> str, id |-> id, enc |-> enc, file |-> file,
     hasOffset |-> hasOffset, byteOffset |-> byteOffset,
     hasLength |-> hasLength, length |-> length, value |-> value]

NoOpts == OptArg("undefined", "", 0, AbsentEnc, "absent", FALSE, 0, FALSE, 0, FALSE)
NullOpts == OptArg("null", "", 0, AbsentEnc, "absent", FALSE, 0, FALSE, 0, FALSE)
OtherOpts == OptArg("other", "", 0, AbsentEnc, "absent", FALSE, 0, FALSE, 0, FALSE)
EncodingOpt(s) ==
    OptArg("string", s, 0, AbsentEnc, "absent", FALSE, 0, FALSE, 0, FALSE)
ObjOpts(id, enc, file, value) ==
    OptArg("object", "", id, enc, file, FALSE, 0, FALSE, 0, value)
SliceOpts(id, hasOffset, byteOffset, hasLength, length) ==
    OptArg("object", "", id, AbsentEnc, "absent", hasOffset, byteOffset,
           hasLength, length, FALSE)

(***************************************************************************)
(* url.parse(input): the protocol and pathname from() destructures.        *)
(* Strings of the model hold no whitespace, '#', '@' or characters that    *)
(* url.parse escapes or rejects in a host name.                            *)
(***************************************************************************)
\* protocols url.parse follows by "//" and a host
SlashedProtocols ==
    { <<"h","t","t","p",":">>, <<"h","t","t","p","s",":">>,
      <<"f","t","p",":">>, <<"f","i","l","e",":">> }

\* number of characters matched by /^[a-z0-9.+-]+:/i, 0 when it does not match
ProtocolEnd(s, n) ==
    IF n >= 1 /\ n < Len(s) /\ s[n + 1] = ":" THEN n + 1 ELSE 0

ProtocolLen(s) ==
    ProtocolEnd(s, FirstOf(s, {c \in DOMAIN CharCode : ~IsProtoChar(c)}) - 1)

\* the path: what is left of the rest up to '?', '/' for an empty path
\* after the host of a slashed protocol, null for an empty path otherwise
Pathname(proto, hostname, rest) ==
    IF FirstOf(rest, {"?"}) > 1
    THEN Str(SubSeq(rest, 1, FirstOf(rest, {"?"}) - 1))
    ELSE IF proto \in SlashedProtocols /\ Len(hostname) > 0
         THEN Str(<<"/">>)
         ELSE Null

\* the host runs up to the first '/' or '?'
ParseHost(proto, rest, hostEnd) ==
    Pathname(proto, SubSeq(rest, 1, hostEnd - 1), Drop(rest, hostEnd - 1))

\* after the protocol; slashes: the rest starts with "//".  A host follows
\* "//", and follows any protocol that is not a slashed one
ParseRest(proto, rest, slashes) ==
    IF slashes
    THEN ParseHost(proto, Drop(rest, 2), FirstOf(Drop(rest, 2), {"/", "?"}))
    ELSE IF Len(proto) > 0 /\ proto \notin SlashedProtocols
         THEN ParseHost(proto, rest, FirstOf(rest, {"/", "?"}))
         ELSE Pathname(proto, <<>>, rest)

ParseProtocol(s, plen) ==
    [hasProtocol |-> plen > 0,
     protocol |-> LowerAll(SubSeq(s, 1, plen)),
     pathname |->
        ParseRest(LowerAll(SubSeq(s, 1, plen)), Drop(s, plen),
                  plen > 0 /\ StartsWith(Drop(s, plen), <<"/", "/">>))]

UrlParse(s) == ParseProtocol(s, ProtocolLen(s))

(***************************************************************************)
(* Buffer.from and Buffer.alloc.  A conversion yields                      *)
(* [ok |-> TRUE, bytes |-> ...] or [ok |-> FALSE, ...] when it throws.     *)
(***************************************************************************)
Bytes(b) == [ok |-> TRUE, bytes |-> b, err |-> ""]
Throws(e) == [ok |-> FALSE, bytes |-> <<>>, err |-> e]

\* Uint8 conversion of an array element
ToUint8(e) == IF e.k = "finite" THEN e.v % 256 ELSE 0

\* number of leading pairs of hex digits of s
RECURSIVE HexPairs(_)
HexPairs(s) ==
    IF Len(s) >= 2 /\ s[1] \in DOMAIN HexValue /\ s[2] \in DOMAIN HexValue
    THEN 1 + HexPairs(Drop(s, 2))
    ELSE 0

\* Buffer.from(string, encoding), for the encoding names of the model:
\* 'utf8' and 'hex' are encodings, any other name is unknown to Node
BufferFromString(s, encoding) ==
    CASE encoding = "utf8" -> Bytes([i \in 1..Len(s) |-> CharCode[s[i]]])
      [] encoding = "hex" ->
            Bytes([i \in 1..HexPairs(s) |->
                      16 * HexValue[s[2 * i - 1]] + HexValue[s[2 * i]]])
      [] OTHER -> Throws("TypeError: Unknown encoding")

\* Buffer.from(arrayOrBufferOrJsonBuffer, encoding): the encoding is ignored
BufferFromElems(elems) == Bytes([i \in 1..Len(elems) |-> ToUint8(elems[i])])

\* mutant of BufferFromArrayBuffer: the byte offset is not used
BufferFromArrayBufferNoOffset(elems, byteOffset, hasLength, length) ==
    IF hasLength /\ length > Len(elems)
    THEN Throws("RangeError: length out of bounds")
    ELSE Bytes([i \in 1..(IF hasLength THEN length ELSE Len(elems)) |->
                   ToUint8(elems[i])])

\* Buffer.from(arrayBuffer, byteOffset, length); length may be undefined
BufferFromArrayBuffer(elems, byteOffset, hasLength, length) ==
    IF Len(elems) - byteOffset < 0
    THEN Throws("RangeError: offset out of bounds")
    ELSE IF hasLength /\ length > Len(elems) - byteOffset
         THEN Throws("RangeError: length out of bounds")
         ELSE Bytes([i \in 1..(IF hasLength THEN length
                                ELSE Len(elems) - byteOffset) |->
                        ToUint8(elems[byteOffset + i])])

\* mutant of BufferAlloc: a size out of range yields an empty buffer
BufferAllocLenient(size) ==
    IF size.k = "finite" /\ size.v >= 0 THEN Bytes([i \in 1..size.v |-> 0])
    ELSE Bytes(<<>>)

\* Buffer.alloc(size), size a number: the finite sizes of the model are below
\* the largest buffer length, Infinity and negative sizes are out of range
BufferAlloc(size) ==
    IF size.k = "finite" /\ size.v >= 0 THEN Bytes([i \in 1..size.v |-> 0])
    ELSE Throws("RangeError: size out of range")

(***************************************************************************)
(* The provider registry: a function from property names (character        *)
(* sequences) to values.  A value is the name of a function ("ram" is      *)
(* random-access-memory, "raf" random-access-file, "raw" random-access-web,*)
(* "rah" random-access-http, "fnA" and "fnB" functions of the caller) or   *)
(* "notfn", a value that is no function.                                   *)
(***************************************************************************)
MEMORY == <<"m","e","m","o","r","y">>
HTTP == <<"h","t","t","p">>
FILE == <<"f","i","l","e">>
DEFAULT == <<"d","e","f","a","u","l","t">>
DATA == <<"d","a","t","a">>
XFILE == <<"x","f","i","l","e">>
CONSTRUCTOR == <<"c","o","n","s","t","r","u","c","t","o","r">>

\* module.exports of providers.js
InitialProviders(browser) ==
    (MEMORY :> "ram") @@ (HTTP :> "rah")
    @@ (FILE :> IF browser THEN "raw" ELSE "raf")
    @@ (DEFAULT :> "ram")

\* properties the registry object inherits from Object.prototype whose name
\* a lower-cased protocol can spell
ObjectPrototype == (CONSTRUCTOR :> "Object")

\* name in providers
HasProperty(reg, name) == name \in DOMAIN reg \/ name \in DOMAIN ObjectPrototype

\* providers[name], for a name in providers
Property(reg, name) ==
    IF name \in DOMAIN reg THEN reg[name] ELSE ObjectPrototype[name]

IsFunction(v) == v # "notfn"

(***************************************************************************)
(* What a from() call does: the calls it makes, in order, whether it       *)
(* probed the filesystem, and how it ends.                                 *)
(***************************************************************************)
\* one call: of a registry entry (kind "provider", key its name, callee the
\* value found there), of a factory given as input (kind "factory", fn the
\* factory) or of random-access-storage (kind "ras").  args is the shape of
\* the argument list: "val" (val alone), "val,opts" or "opts" (opts alone)
Entry(kind, key, callee, fn, args, val, opts) ==
    [kind |-> kind, key |-> key, callee |-> callee, fn |-> fn, args |-> args,
     val |-> val, opts |-> opts]

Returned(how, value) ==
    [status |-> "returned", how |-> how, err |-> "", value |-> value]
Thrown(err) ==
    [status |-> "thrown", how |-> "error", err |-> err, value |-> Undefined]

Outcome(calls, probed, result) ==
    [calls |-> calls, probed |-> probed, result |-> result]

NoResult == [status |-> "none", how |-> "none", err |-> "", value |-> Undefined]

\* reg[key](val, opts) when withOpts, reg[key](val) otherwise; the value
\* returned is the provider's
CallProvider(reg, key, val, withOpts, opts) ==
    Outcome(<<Entry("provider", key, Property(reg, key), Undefined,
                    IF withOpts THEN "val,opts" ELSE "val", val,
                    IF withOpts THEN opts ELSE NoOpts)>>,
            FALSE,
            IF IsFunction(Property(reg, key))
            THEN Returned("provider", Undefined)
            ELSE Thrown("TypeError: not a function"))

\* providers.memory(<conversion>): the conversion is evaluated first
CallMemory(reg, conv) ==
    IF conv.ok
    THEN CallProvider(reg, MEMORY, Buf(conv.bytes, {}, 0), FALSE, NoOpts)
    ELSE Outcome(<<>>, FALSE, Thrown(conv.err))

\* ras(input)
CallRas(val) ==
    Outcome(<<Entry("ras", <<>>, "ras", Undefined, "val", val, NoOpts)>>,
            FALSE, Returned("wrapped", Undefined))

WithProbed(out, probed) == [out EXCEPT !.probed = probed]

(***************************************************************************)
(* from(input, optsOrEncoding)                                             *)
(***************************************************************************)
DEFAULT_ENCODING == "utf8"

\* mutant of DefaultEncoding: the default replaces the encoding given
AlwaysDefaultEncoding(o) == [o EXCEPT !.enc = StrEnc(DEFAULT_ENCODING)]

\* opts.encoding = DEFAULT_ENCODING unless it is a non-empty string
DefaultEncoding(o) ==
    IF o.enc.k # "string" \/ o.enc.s = ""
    THEN [o EXCEPT !.enc = StrEnc(DEFAULT_ENCODING)]
    ELSE o

\* the record `let opts = {}` creates
EmptyOpts ==
    OptArg("object", "", 0, AbsentEnc, "absent", FALSE, 0, FALSE, 0, FALSE)

\* the options record of the call
Normalize(oe) ==
    DefaultEncoding(
        IF oe.t = "string" THEN [EmptyOpts EXCEPT !.enc = StrEnc(oe.str)]
        ELSE IF oe.t = "object" THEN oe
        ELSE EmptyOpts)

\* mutant of FileForced: the file flag is honoured only for strings that
\* hold no protocol
FileForcedUnlessUrl(in, opts) ==
    Len(in.str) > 0 /\ opts.file = "true" /\ ProtocolLen(in.str) = 0

\* input.length && true === opts.file
FileForced(in, opts) == Len(in.str) > 0 /\ opts.file = "true"

\* mutant of MatchesHttp: /http:/ only
MatchesHttpOnly(protocol) == Contains(protocol, <<"h","t","t","p",":">>)

\* /https?:/.test(protocol)
MatchesHttp(protocol) ==
    Contains(protocol, <<"h","t","t","p",":">>)
    \/ Contains(protocol, <<"h","t","t","p","s",":">>)

\* /file:/.test(protocol)
MatchesFile(protocol) == Contains(protocol, <<"f","i","l","e",":">>)

\* mutant of Registered: the type of the entry is not tested
RegisteredAnyValue(reg, protocolName) == HasProperty(reg, protocolName)

\* protocolName in providers && 'function' === typeof providers[protocolName]
Registered(reg, protocolName) ==
    HasProperty(reg, protocolName) /\ IsFunction(Property(reg, protocolName))

\* protocol.slice(0, -1)
ProtocolName(protocol) == SubSeq(protocol, 1, Len(protocol) - 1)

\* fs.accessSync(input) returns and fs.statSync(input).isFile()
ProbeFindsFile(pr) == pr = "file"

Match(out) == [matched |-> TRUE, out |-> out]

\* return providers.file(input, opts)
ForcedFileRule(reg, in, opts) == CallProvider(reg, FILE, in, TRUE, opts)

\* return providers.http(input, opts)
HttpRule(reg, in, opts) == CallProvider(reg, HTTP, in, TRUE, opts)

\* mutant of FileUrlRule: the options are handed on
FileUrlRuleWithOpts(reg, pathname, opts) ==
    CallProvider(reg, FILE, pathname, TRUE, opts)

\* return providers.file(pathname)
FileUrlRule(reg, pathname, opts) == CallProvider(reg, FILE, pathname, FALSE, opts)

\* return providers[protocolName](input, opts)
ProtocolRule(reg, protocolName, in, opts) ==
    CallProvider(reg, protocolName, in, TRUE, opts)

\* return providers.file(input), after the probe
ProbeRule(reg, in, opts) ==
    WithProbed(CallProvider(reg, FILE, in, FALSE, opts), TRUE)

\* return providers.memory(Buffer.from(input, opts.encoding))
StringMemoryRule(reg, in, opts) ==
    CallMemory(reg, BufferFromString(in.str, opts.enc.s))

\* the rules for a string input, parsed being url.parse(input); matched is
\* FALSE when none of them returned
StringRules(in, opts, pr, reg, browser, parsed) ==
    IF FileForced(in, opts)
    THEN Match(ForcedFileRule(reg, in, opts))
    ELSE IF parsed.hasProtocol /\ MatchesHttp(parsed.protocol)
    THEN Match(HttpRule(reg, in, opts))
    ELSE IF parsed.hasProtocol /\ MatchesFile(parsed.protocol)
    THEN Match(FileUrlRule(reg, parsed.pathname, opts))
    ELSE IF parsed.hasProtocol /\ Registered(reg, ProtocolName(parsed.protocol))
    THEN Match(ProtocolRule(reg, ProtocolName(parsed.protocol), in, opts))
    ELSE IF ~browser /\ ProbeFindsFile(pr)
    THEN Match(ProbeRule(reg, in, opts))
    ELSE IF Len(in.str) > 0
    THEN Match(WithProbed(StringMemoryRule(reg, in, opts), ~browser))
    ELSE [matched |-> FALSE, out |-> Outcome(<<>>, ~browser, NoResult)]

\* 'number' === typeof input && input === input
IsNumber(in) == TypeOf(in) = "number" /\ in.num.k # "NaN"

\* mutant of NonNegative: input > 0
StrictlyPositive(n) == (n.k = "finite" /\ n.v > 0) \/ n.k = "Infinity"

\* input >= 0, for a number
NonNegative(n) == (n.k = "finite" /\ n.v >= 0) \/ n.k = "Infinity"

IsBufferLike(in) ==
    \/ in.wraps = 0 /\ in.t = "buffer"
    \/ in.wraps = 0 /\ in.t = "arraybuffer"
    \/ /\ in.t # "null" /\ TypeOf(in) = "object"
       /\ \/ in.isBuf /\ in.hasData
          \/ in.t = "array" /\ \A i \in 1..Len(in.elems) : in.elems[i].k = "finite"

\* mutant of IsHandle: only the readable flag is looked at
IsHandleReadable(in) == "readable" \in in.flags

\* readable || writable || statable || deletable
IsHandle(in) == in.flags \cap Capabilities # {}

\* the value a factory returns
Returns(fn) == [fn EXCEPT !.wraps = @ - 1]

\* mutant of AfterFactory: the factory is called a second time
AfterFactoryTwice(fn, opts, inner) ==
    Outcome(<<Entry("factory", <<>>, "factory", fn, "opts", Undefined, opts),
              Entry("factory", <<>>, "factory", fn, "opts", Undefined, opts)>>
                \o inner.calls,
            inner.probed, inner.result)

\* the call of a factory, followed by the calls of from(input(opts), opts)
AfterFactory(fn, opts, inner) ==
    Outcome(<<Entry("factory", <<>>, "factory", fn, "opts", Undefined, opts)>>
                \o inner.calls,
            inner.probed, inner.result)

RECURSIVE From(_, _, _, _, _)

\* the rules after the string rules; probed: the string rules probed
OtherRules(in, opts, pr, reg, browser, probed) ==
    IF IsNumber(in) /\ NonNegative(in.num)
    THEN CallMemory(reg, BufferAlloc(in.num))
    ELSE IF IsBufferLike(in)
    THEN IF in.t = "arraybuffer"
         THEN CallMemory(reg, BufferFromArrayBuffer(in.elems,
                  IF opts.hasOffset THEN opts.byteOffset ELSE 0,
                  opts.hasLength, opts.length))
         ELSE CallMemory(reg, BufferFromElems(in.elems))
    ELSE IF in.t # "null" /\ TypeOf(in) = "object"
    THEN IF IsHandle(in)
         THEN Outcome(<<>>, FALSE, Returned("identity", in))
         ELSE CallRas(in)
    ELSE IF TypeOf(in) = "function"
    THEN AfterFactory(in, opts, From(Returns(in), opts, pr, reg, browser))
    ELSE WithProbed(CallProvider(reg, DEFAULT, in, TRUE, opts), probed)

AfterStringRules(in, opts, pr, reg, browser, str) ==
    IF str.matched THEN str.out
    ELSE OtherRules(in, opts, pr, reg, browser, str.out.probed)

\* the rules of from(), opts being the options record of the call
Dispatch(in, opts, pr, reg, browser) ==
    IF TypeOf(in) = "string"
    THEN AfterStringRules(in, opts, pr, reg, browser,
             StringRules(in, opts, pr, reg, browser, UrlParse(in.str)))
    ELSE OtherRules(in, opts, pr, reg, browser, FALSE)

Observed(opts, out) ==
    [opts |-> opts, calls |-> out.calls, probed |-> out.probed,
     result |-> out.result]

From(in, oe, pr, reg, browser) ==
    Observed(Normalize(oe), Dispatch(in, Normalize(oe), pr, reg, browser))

(***************************************************************************)
(* The values the calls of the model are made with.                        *)
(***************************************************************************)
S_empty == <<>>
S_ab == <<"a","b">>
S_hi == <<"h","i">>
S_path == <<"/","a">>
S_http == <<"h","t","t","p",":","/","/","h","/","a">>
S_https == <<"h","t","t","p","s",":","/","/","h">>
S_HTTP == <<"H","T","T","P",":","a">>
S_xhttp == <<"x","h","t","t","p",":","a">>
S_file == <<"f","i","l","e",":","/","/","/","a","?","b">>
S_fileHost == <<"f","i","l","e",":","/","/","h">>
S_fileRel == <<"f","i","l","e",":","a">>
S_xfile == <<"x","f","i","l","e",":","/","a">>
S_data == <<"d","a","t","a",":","a","b">>
S_ctor == <<"c","o","n","s","t","r","u","c","t","o","r",":","a">>

Strings ==
    { S_empty, S_ab, S_hi, S_path, S_http, S_https, S_HTTP, S_xhttp, S_file,
      S_fileHost, S_fileRel, S_xfile, S_data, S_ctor }

Numbers == {Finite(n) : n \in -1..MaxNum} \cup {NaN, Infinity, NegInfinity}

Region == <<7, 8>>        \* the bytes of the array-buffer of the model

PlainInputs ==
    {Str(s) : s \in Strings}
    \cup {Num(n) : n \in Numbers}
    \cup {Undefined, Null, Bool, Symbol}
    \cup { Buf(<<104, 105>>, {}, 1), Buf(<<1>>, {"readable"}, 2),
           ArrBuf(Region, 3),
           Arr(<<>>, {}, 4),
           Arr(<<Finite(1), Finite(255)>>, {}, 5),
           Arr(<<Finite(256), Finite(-1)>>, {}, 6),
           Arr(<<Finite(1), NaN>>, {}, 7),
           Arr(<<Finite(1)>>, {"writable"}, 8),
           Obj({}, FALSE, FALSE, <<>>, 10),
           Obj({"readable"}, FALSE, FALSE, <<>>, 11),
           Obj({"statable", "deletable"}, FALSE, FALSE, <<>>, 12),
           Obj({}, TRUE, TRUE, <<Finite(104), Finite(105)>>, 13),
           Obj({}, TRUE, TRUE, <<Finite(1), StrElem>>, 14),
           Obj({"readable"}, TRUE, TRUE, <<Finite(1)>>, 15),
           Obj({}, TRUE, FALSE, <<>>, 16),
           Obj({"deletable"}, FALSE, TRUE, <<Finite(1)>>, 17) }

\* the values the factories of the model return in the end
FactoryBases ==
    { Str(S_ab), Str(S_http), Num(Finite(1)), Undefined,
      Obj({"readable"}, FALSE, FALSE, <<>>, 11) }

RECURSIVE Nest(_, _)
Nest(v, k) == IF k = 0 THEN v ELSE Factory(Nest(v, k - 1))

Inputs ==
    PlainInputs \cup {Nest(v, k) : v \in FactoryBases, k \in 1..MaxChain}

OptArgs ==
    { NoOpts, NullOpts, OtherOpts,
      EncodingOpt("hex"), EncodingOpt("bogus"), EncodingOpt(""),
      ObjOpts(9, AbsentEnc, "absent", FALSE),
      ObjOpts(9, AbsentEnc, "true", TRUE),
      ObjOpts(9, AbsentEnc, "truthy", FALSE),
      ObjOpts(9, StrEnc("hex"), "absent", TRUE),
      ObjOpts(9, OtherEnc, "absent", FALSE) }

\* { byteOffset, length } records, given with an array-buffer
SliceArgs ==
    { SliceOpts(9, ho, IF ho THEN o ELSE 0, hl, IF hl THEN l ELSE 0) :
        ho \in BOOLEAN, o \in 0..MaxRegion, hl \in BOOLEAN, l \in 0..MaxRegion }

ProbeResults == {"file", "directory", "enoent", "eacces"}

\* the string a call hands to the filesystem probe, if it is a string
IsStringCall(in) == in.t = "string"

AssignableNames == {DEFAULT, DATA, XFILE}
AssignableValues == {"fnA", "fnB", "notfn"}

(***************************************************************************)
(* The state machine.                                                      *)
(***************************************************************************)
NoCall ==
    [called |-> FALSE, opts |-> NoOpts, calls |-> <<>>, probed |-> FALSE,
     result |-> NoResult]

Init ==
    /\ isBrowser \in BOOLEAN
    /\ providers = InitialProviders(isBrowser)
    /\ input \in Inputs
    /\ optsOrEncoding \in
          IF input.t = "arraybuffer" THEN OptArgs \cup SliceArgs ELSE OptArgs
    \* the probe can find something only under a non-empty path
    /\ probe \in IF IsStringCall(input) /\ Len(input.str) > 0
                 THEN ProbeResults ELSE {"enoent"}
    /\ last = NoCall

\* from.providers[name] = value; `last` observes the calls made since
Assign(name, value) ==
    /\ providers' = (name :> value) @@ providers
    /\ last' = NoCall
    /\ UNCHANGED <<isBrowser, input, optsOrEncoding, probe>>

\* the caller's second argument after the call: when it is a record, opts
\* is that very record (opts = optsOrEncoding), so what is assigned to
\* opts.encoding is assigned to it
CallerOpts(oe, opts) == IF oe.t = "object" THEN opts ELSE oe

\* from(input, optsOrEncoding)
Call ==
    /\ last' = [called |-> TRUE]
                 @@ From(input, optsOrEncoding, probe, providers, isBrowser)
    /\ optsOrEncoding' = CallerOpts(optsOrEncoding, last'.opts)
    /\ UNCHANGED <<providers, isBrowser, input, probe>>

Next ==
    \/ \E name \in AssignableNames, value \in AssignableValues :
          Assign(name, value)
    \/ Call

Spec == Init /\ [][Next]_vars

(***************************************************************************)
(* Properties of the dispatcher.  `last` observes the call                 *)
(* from(input, optsOrEncoding) made with the registry `providers`, the     *)
(* filesystem holding `probe` under the path `input`.                      *)
(***************************************************************************)
StringInput == TypeOf(input) = "string"

\* o is the options record of a call given oe: oe itself when it is a
\* record, a new record otherwise, with the encoding the given non-empty
\* string or else utf8
NormalizedFrom(oe, o) ==
    /\ o.t = "object"
    /\ o.enc.k = "string"
    /\ o.enc.s = IF oe.t = "string" /\ oe.str # "" THEN oe.str
                 ELSE IF oe.t = "object" /\ oe.enc.k = "string" /\ oe.enc.s # ""
                      THEN oe.enc.s
                      ELSE "utf8"
    /\ IF oe.t = "object"
       THEN [o EXCEPT !.enc = oe.enc] = oe
       ELSE [o EXCEPT !.enc = AbsentEnc] = [NoOpts EXCEPT !.t = "object"]

NormalOpts == NormalizedFrom(optsOrEncoding, last.opts)

\* options.file === true
FileTrue == optsOrEncoding.t = "object" /\ optsOrEncoding.file = "true"

\* the call made of the registry entry `key`, as it is at the time of the call
ProviderCall(key, args, val, opts) ==
    Entry("provider", key, Property(providers, key), Undefined, args, val, opts)

\* the call made exactly one call: providers[key](input, opts)
DelegatedWithOpts(key) ==
    /\ last.calls = <<ProviderCall(key, "val,opts", input, last.opts)>>
    /\ NormalOpts

\* C1 as stated: every string, the empty string included, dispatched with
\* options.file === true goes to the file provider with the raw string and
\* the normalized options, and to no other provider.
C1_AnyStringForcedToFile ==
    (last.called /\ StringInput /\ FileTrue) => DelegatedWithOpts(FILE)

\* C1 amended: every non-empty string dispatched with options.file === true
\* goes to the file provider with the raw string and the normalized options,
\* and to no other provider, whatever the string parses as.
C1_NonEmptyStringForcedToFile ==
    (last.called /\ StringInput /\ FileTrue /\ Len(input.str) > 0)
        => DelegatedWithOpts(FILE)

\* C1 witness: an http: URL forced to the file provider
C1_Witness ==
    /\ last.called /\ input = Str(S_http) /\ FileTrue
    /\ last.calls[1].key = FILE /\ last.calls[1].val = Str(S_http)
    /\ last.calls[1].opts.file = "true"

\* url.parse(input), for a string input
Parsed == UrlParse(input.str)

ExactProtocols ==
    { <<"h","t","t","p",":">>, <<"h","t","t","p","s",":">>,
      <<"f","i","l","e",":">> }

\* C2 as stated: a string (options.file not true) whose protocol is none of
\* exactly http:, https:, file: and names a function of the registry is
\* delegated to that function, as it is registered at the time of the call,
\* with the original string and the normalized options, and to no other
\* provider.
C2_RegisteredProtocolDelegates ==
    ( /\ last.called /\ StringInput /\ ~FileTrue
      /\ Parsed.hasProtocol /\ Parsed.protocol \notin ExactProtocols
      /\ Registered(providers, ProtocolName(Parsed.protocol)) )
        => DelegatedWithOpts(ProtocolName(Parsed.protocol))

\* an object that is not null
ObjectInput == input.t # "null" /\ TypeOf(input) = "object"

\* the call returned its input and called nothing
PassedThrough ==
    /\ last.calls = <<>>
    /\ last.result = Returned("identity", input)

\* C3 as stated: every non-null object with a truthy capability flag,
\* whatever else it carries, is returned as it is, and neither a provider nor
\* the storage-handle constructor is called.
C3_AnyHandlePassedThrough ==
    (last.called /\ ObjectInput /\ input.flags \cap Capabilities # {})
        => PassedThrough

\* the buffer-like shapes: a Buffer, an ArrayBuffer, a record with type
\* 'Buffer' and an array `data`, an array of numbers
BufferLikeShape ==
    \/ input.t \in {"buffer", "arraybuffer"}
    \/ input.isBuf /\ input.hasData
    \/ input.t = "array"
       /\ \A i \in 1..Len(input.elems) : input.elems[i].k = "finite"

\* C3 amended: every non-null object that is not buffer-like and has a truthy
\* capability flag is returned as it is, and neither a provider nor the
\* storage-handle constructor is called.
C3_HandlePassedThrough ==
    ( /\ last.called /\ ObjectInput /\ ~BufferLikeShape
      /\ input.flags \cap Capabilities # {} )
        => PassedThrough

\* C3 witness: an object whose only truthy flag is deletable, with a `data`
\* array but no type 'Buffer', came back as it is
C3_Witness ==
    /\ last.called
    /\ input = Obj({"deletable"}, FALSE, TRUE, <<Finite(1)>>, 17)
    /\ last.result.how = "identity" /\ last.result.value.id = 17

\* C4: a string whose protocol is http: or https:, options.file not true,
\* is delegated to the http provider with the original string and the
\* normalized options; the filesystem is not probed and the file provider is
\* not called, whatever the filesystem holds.
C4_HttpNeverFile ==
    ( /\ last.called /\ StringInput /\ ~FileTrue
      /\ Parsed.hasProtocol
      /\ Parsed.protocol \in {<<"h","t","t","p",":">>, <<"h","t","t","p","s",":">>} )
        => /\ DelegatedWithOpts(HTTP)
           /\ ~last.probed
           /\ \A i \in 1..Len(last.calls) : last.calls[i].key # FILE

\* C4 witness: an https: URL, a regular file under that very name, a runtime
\* that can probe: the http provider was called
C4_Witness ==
    /\ last.called /\ input = Str(S_https) /\ probe = "file" /\ ~isBrowser
    /\ last.calls[1].key = HTTP /\ ~last.probed

\* the call made exactly one call: providers.memory(<a Buffer of `elems`>)
DelegatedToMemory(elems) ==
    last.calls = <<ProviderCall(MEMORY, "val",
                       JsValue("buffer", <<>>, Finite(0), elems, {},
                               FALSE, FALSE, 0),
                       NoOpts)>>

\* what from(v, last.opts) does, v the value the factories return in the end
BaseCall == From([input EXCEPT !.wraps = 0], last.opts, probe, providers, isBrowser)

\* C5: a chain of k factories: each is called exactly once, outermost first,
\* with the normalized options record as its sole argument; the call then
\* does what dispatching the final value with that same record does, and
\* ends as that does.
C5_FactoriesOnceInOrder ==
    (last.called /\ input.wraps > 0)
        => /\ NormalOpts
           /\ Len(last.calls) >= input.wraps
           /\ \A i \in 1..input.wraps :
                 last.calls[i] =
                     Entry("factory", <<>>, "factory",
                           [input EXCEPT !.wraps = input.wraps - i + 1],
                           "opts", Undefined, last.opts)
           /\ \A i \in (input.wraps + 1)..Len(last.calls) :
                 last.calls[i].kind # "factory"
           /\ SubSeq(last.calls, input.wraps + 1, Len(last.calls)) = BaseCall.calls
           /\ last.result = BaseCall.result
           /\ last.opts = BaseCall.opts

\* C5 witness: a factory returning a factory returning a string, called with
\* an options record: two factory calls, then the memory provider
C5_Witness ==
    /\ last.called /\ input = Nest(Str(S_ab), 2)
    /\ optsOrEncoding = ObjOpts(9, StrEnc("hex"), "absent", TRUE)
    /\ Len(last.calls) = 3
    /\ last.calls[1].fn.wraps = 2 /\ last.calls[2].fn.wraps = 1
    /\ last.calls[2].opts.id = 9
    /\ last.calls[3].key = MEMORY
    /\ last.result.status = "returned"

\* options.encoding as the caller gives it: the second argument when it is a
\* non-empty string, the record's encoding when that is one, utf8 otherwise
GivenEncoding ==
    IF optsOrEncoding.t = "string" /\ optsOrEncoding.str # ""
    THEN optsOrEncoding.str
    ELSE IF /\ optsOrEncoding.t = "object" /\ optsOrEncoding.enc.k = "string"
            /\ optsOrEncoding.enc.s # ""
         THEN optsOrEncoding.enc.s
         ELSE "utf8"

\* the encoding names of the model that Buffer.from knows
KnownEncodings == {"utf8", "hex"}

\* a non-empty string that no rule before the memory rule takes
StringLeftToMemory ==
    /\ StringInput /\ Len(input.str) > 0 /\ ~FileTrue
    /\ ~(Parsed.hasProtocol /\ MatchesHttp(Parsed.protocol))
    /\ ~(Parsed.hasProtocol /\ MatchesFile(Parsed.protocol))
    /\ ~(Parsed.hasProtocol /\ Registered(providers, ProtocolName(Parsed.protocol)))
    /\ (isBrowser \/ probe # "file")

EncodedString ==
    [i \in 1..Len(BufferFromString(input.str, GivenEncoding).bytes) |->
        Finite(BufferFromString(input.str, GivenEncoding).bytes[i])]

\* C6 as stated: a non-empty string that no earlier rule takes, the probe
\* skipped or failing, raises nothing and goes to the memory provider with
\* the bytes of the string in options.encoding, for any encoding string.
C6_StringToMemoryAnyEncoding ==
    (last.called /\ StringLeftToMemory)
        => /\ last.result.status = "returned"
           /\ DelegatedToMemory(EncodedString)

\* C6 amended: a non-empty string that no earlier rule takes, the probe
\* skipped or failing, goes to the memory provider with the bytes of the
\* string in options.encoding when Buffer.from knows that encoding; with an
\* encoding it does not know the conversion raises a TypeError and no
\* provider is called.
C6_StringToMemory ==
    (last.called /\ StringLeftToMemory)
        => IF GivenEncoding \in KnownEncodings
           THEN /\ last.result.status = "returned"
                /\ DelegatedToMemory(EncodedString)
           ELSE /\ last.result = Thrown("TypeError: Unknown encoding")
                /\ last.calls = <<>>

\* C6 witness: 'ab' given with 'hex', a directory under that name: one byte
\* 0xab reached the memory provider after the probe
C6_Witness ==
    /\ last.called /\ input = Str(S_ab) /\ optsOrEncoding = EncodingOpt("hex")
    /\ probe = "directory" /\ ~isBrowser /\ last.probed
    /\ last.calls[1].key = MEMORY
    /\ last.calls[1].val.elems = <<Finite(171)>>

\* the slice of an array-buffer that options.byteOffset and options.length
\* name
SliceStart == IF last.opts.hasOffset THEN last.opts.byteOffset ELSE 0
SliceLen ==
    IF last.opts.hasLength THEN last.opts.length
    ELSE Len(input.elems) - SliceStart
SliceInRegion ==
    SliceStart <= Len(input.elems) /\ SliceStart + SliceLen <= Len(input.elems)

\* the bytes of a buffer-like input, as they are given
GivenBytes ==
    IF input.t = "arraybuffer"
    THEN [i \in 1..SliceLen |-> input.elems[SliceStart + i]]
    ELSE input.elems

AllBytes ==
    \A i \in 1..Len(input.elems) :
        input.elems[i].k = "finite" /\ input.elems[i].v \in 0..255

NumberInput == input.wraps = 0 /\ input.t = "number"

Zeros(n) == [i \in 1..n |-> Finite(0)]

ProviderOutcome ==
    /\ Len(last.calls) = 1
    /\ last.calls[1].kind = "provider"
    /\ last.calls[1].key \in DOMAIN providers
    /\ last.result.how # "identity"
WrapOutcome ==
    /\ Len(last.calls) = 1
    /\ last.calls[1].kind = "ras"
    /\ last.result.how = "wrapped"
IdentityOutcome == last.calls = <<>> /\ last.result = Returned("identity", input)

\* the inputs no rule before the default rule takes
FallsThrough ==
    /\ input.wraps = 0
    /\ \/ input.t \in {"undefined", "boolean", "symbol"}
       \/ StringInput /\ Len(input.str) = 0 /\ ~FileTrue
       \/ input.t = "number" /\ input.num.k = "NaN"
       \/ input.t = "number" /\ input.num.k = "NegInfinity"
       \/ input.t = "number" /\ input.num.k = "finite" /\ input.num.v < 0

\* C9: a call whose input is no factory ends in exactly one outcome among a
\* provider of the registry (memory, file, http, a registered protocol,
\* default), the input handed back, and the generic handle; and an input
\* that no earlier rule takes goes to the entry registered as default at the
\* time, with the input as given and the normalized options.
C9_OneOutcomeDefaultCatchAll ==
    (last.called /\ input.wraps = 0)
        => /\ \/ ProviderOutcome /\ ~WrapOutcome /\ ~IdentityOutcome
              \/ WrapOutcome /\ ~ProviderOutcome /\ ~IdentityOutcome
              \/ IdentityOutcome /\ ~ProviderOutcome /\ ~WrapOutcome
           /\ FallsThrough => DelegatedWithOpts(DEFAULT)

\* the second half of C9 alone: the default rule is the catch-all
C9_DefaultCatchAll ==
    (last.called /\ FallsThrough) => DelegatedWithOpts(DEFAULT)

\* the string is taken by the file: rule
FileUrlCase ==
    /\ StringInput /\ ~FileForced(input, Normalize(optsOrEncoding))
    /\ Parsed.hasProtocol
    /\ ~MatchesHttp(Parsed.protocol) /\ MatchesFile(Parsed.protocol)

\* the string is taken by the probe rule
ProbeCase ==
    /\ StringInput /\ ~FileForced(input, Normalize(optsOrEncoding))
    /\ ~(Parsed.hasProtocol /\ MatchesHttp(Parsed.protocol))
    /\ ~(Parsed.hasProtocol /\ MatchesFile(Parsed.protocol))
    /\ ~(Parsed.hasProtocol /\ Registered(providers, ProtocolName(Parsed.protocol)))
    /\ ~isBrowser /\ ProbeFindsFile(probe)

C10_ProbeReached ==
    /\ last.called /\ input = Str(S_path) /\ probe = "file" /\ ~isBrowser
    /\ last.calls[1].key = FILE /\ last.calls[1].val = input
    /\ last.calls[1].args = "val"

\* the string holds a protocol that the http and file rules leave alone and
\* under whose name the registry holds a value that is no function
NonFunctionProtocol ==
    /\ StringInput /\ ~FileForced(input, Normalize(optsOrEncoding))
    /\ Parsed.hasProtocol
    /\ ~MatchesHttp(Parsed.protocol) /\ ~MatchesFile(Parsed.protocol)
    /\ HasProperty(providers, ProtocolName(Parsed.protocol))
    /\ ~IsFunction(Property(providers, ProtocolName(Parsed.protocol)))

\* the registry without the entry `name`
Without(reg, name) == [k \in DOMAIN reg \ {name} |-> reg[k]]

\* C11 as stated: a value that is no function, assigned under the protocol
\* name of the string, is invoked by the protocol rule, and the call raises
\* an error instead of reaching the probe, memory or default rules.
C11_NonFunctionInvoked ==
    (last.called /\ NonFunctionProtocol)
        => /\ last.calls = <<ProviderCall(ProtocolName(Parsed.protocol),
                                          "val,opts", input, last.opts)>>
           /\ last.result = Thrown("TypeError: not a function")

\* C11 amended: a value that is no function may be assigned under a protocol
\* name, and is never invoked by the protocol rule: the call makes no call
\* of that entry, raises no error for it, and does what it would do were
\* nothing registered under that name (probe, then memory).
C11_NonFunctionSkipped ==
    (last.called /\ NonFunctionProtocol)
        => /\ \A i \in 1..Len(last.calls) :
                 last.calls[i].key # ProtocolName(Parsed.protocol)
           /\ last.result # Thrown("TypeError: not a function")
           /\ last = [called |-> TRUE]
                       @@ From(input, optsOrEncoding, probe,
                               Without(providers, ProtocolName(Parsed.protocol)),
                               isBrowser)

\* C11 witness: with a non-function assigned under 'data', 'data:ab' reached
\* the memory provider
C11_Witness ==
    /\ last.called /\ input = Str(S_data)
    /\ DATA \in DOMAIN providers /\ providers[DATA] = "notfn"
    /\ probe = "enoent"
    /\ Len(last.calls) = 1 /\ last.calls[1].key = MEMORY
    /\ last.result.status = "returned"

\* the value dispatched in the end (the input, or what its factories return)
\* is one whose conversion to bytes raises: a string left to the memory rule
\* with an encoding Buffer.from does not know, Infinity, or an array-buffer
\* with a slice outside its region
ConversionRaises ==
    \/ /\ input.t = "string" /\ Len(input.str) > 0 /\ ~FileTrue
       /\ ~(Parsed.hasProtocol /\ MatchesHttp(Parsed.protocol))
       /\ ~(Parsed.hasProtocol /\ MatchesFile(Parsed.protocol))
       /\ ~(Parsed.hasProtocol
              /\ Registered(providers, ProtocolName(Parsed.protocol)))
       /\ (isBrowser \/ probe # "file")
       /\ GivenEncoding \notin KnownEncodings
    \/ input.t = "number" /\ input.num.k = "Infinity"
    \/ input.t = "arraybuffer" /\ ~SliceInRegion

\* the call ended in the call of a registry entry that is no function
NonFunctionCalled ==
    /\ Len(last.calls) > 0
    /\ last.calls[Len(last.calls)].kind = "provider"
    /\ ~IsFunction(last.calls[Len(last.calls)].callee)

C13_CallLeavesArguments ==
    [][Call => /\ optsOrEncoding' = optsOrEncoding
               /\ input' = input
               /\ providers' = providers]_vars

\* the caller's record holds no non-empty string under `encoding`
LacksEncoding ==
    /\ optsOrEncoding.t = "object"
    /\ optsOrEncoding.enc.k # "string" \/ optsOrEncoding.enc.s = ""

\* what a call does to its arguments and the registry: the input and the
\* registry stay as they were, and so does the options argument, but for
\* encoding = 'utf8' written into a record that held no non-empty string
\* there
C13_CallWritesEncoding ==
    [][Call => /\ input' = input
               /\ providers' = providers
               /\ optsOrEncoding' =
                    IF LacksEncoding
                    THEN [optsOrEncoding EXCEPT !.enc = StrEnc(DEFAULT_ENCODING)]
                    ELSE optsOrEncoding]_vars

\* the record given without an encoding holds 'utf8' after the call
C13_EncodingWritten ==
    /\ last.called
    /\ optsOrEncoding = ObjOpts(9, StrEnc("utf8"), "absent", FALSE)

=============================================================================
